---- MODULE Spec2Model ----
(***************************************************************************)
(* Procedural Religion Generator: the response coercer                     *)
(* (GeminiClient._parse_response, ReligionGenerator._convert_to_models),   *)
(* the variation and expansion orchestration of ReligionGenerator and the  *)
(* in-memory store of main.py.                                             *)
(***************************************************************************)
EXTENDS Integers, Sequences, FiniteSets, TLC

VARIABLES
    raw_data,       \* the parsed payload handed to _convert_to_models
    edits,          \* how far raw_data is from the payload the prompt asks for
    conv,           \* outcome of _convert_to_models(raw_data)
    response_text,  \* the raw text handed to _parse_response
    parsed,         \* outcome of _parse_response(response_text)
    backend,        \* what the backend call of the last pipeline run did
    result,         \* outcome of ReligionGenerator.generate_religion
    loop,           \* ReligionGenerator.generate_religion_variations in progress
    generated_religions,  \* main.py: the store, id -> {religion, created_at, generation_time}
    clock,          \* the current unix second
    last,           \* the response to the last request
    calls,          \* the prompts sent to the backend by the last request
    events,         \* requests served and seconds passed so far
    request,        \* the last request
    race            \* two expand requests on one record, taken line by line

coerceVars == <<raw_data, edits, conv>>
parseVars == <<response_text, parsed>>
pipeVars == <<backend, result>>
storeVars == <<generated_religions, clock, last, calls, events, request>>
vars == <<raw_data, edits, conv, response_text, parsed, backend, result, loop,
          generated_religions, clock, last, calls, events, request, race>>

(***************************************************************************)
(* Bounds                                                                  *)
(***************************************************************************)
MaxEdits == 1
MaxTextLen == 5
MaxCount == 6
MaxEvents == 4

(***************************************************************************)
(* JSON values as json.loads returns them: str, list, dict and None.       *)
(***************************************************************************)
JStr(s) == [t |-> "str", v |-> s]
JList(l) == [t |-> "list", v |-> l]
JObj(f) == [t |-> "obj", v |-> f]
JNull == [t |-> "null", v |-> "None"]

EmptyMap == [k \in {} |-> JNull]

\* dict.get(key) with the default forgotten
GetNone(d, key, default) == IF key \in DOMAIN d THEN d[key] ELSE JNull

\* dict.get(key, default)
Get(d, key, default) == IF key \in DOMAIN d THEN d[key] ELSE default

(***************************************************************************)
(* models.py                                                               *)
(***************************************************************************)
DeityType == {"monotheistic", "polytheistic", "pantheistic", "animistic"}

DeityStr == {"name", "title", "domain", "description"}
DeityList == {"attributes", "symbols"}
SacredTextStr == {"title", "content", "language", "origin_story"}
SacredTextList == {"chapters"}
RitualStr == {"name", "purpose", "frequency", "participants", "significance"}
RitualList == {"steps", "materials_needed"}
MoralRuleStr == {"rule", "description", "severity", "punishment", "reward"}
MoralRuleList == {}
MythologicalLegendStr == {"title", "story", "moral_lesson", "cultural_impact"}
MythologicalLegendList == {"characters"}
RewardPunishmentStr == {"afterlife_concept"}
RewardPunishmentList == {"rewards", "punishments", "judgment_criteria"}
SymbolStr == {"name", "meaning", "visual_description", "usage_context"}
SymbolList == {}

\* a value pydantic accepts for a field annotated str
IsStr(x) == x.t = "str"

\* a value pydantic accepts for a field annotated List[str]
IsStrList(x) == x.t = "list" /\ \A i \in 1..Len(x.v) : IsStr(x.v[i])

StrListOf(x) == [i \in 1..Len(x.v) |-> x.v[i].v]

\* Model(**d) of a BaseModel whose fields are all required: every field must
\* be a key of d and hold a value of the annotated type; other keys are ignored.
FieldsValid(d, strF, listF) ==
    /\ \A f \in strF : f \in DOMAIN d /\ IsStr(d[f])
    /\ \A f \in listF : f \in DOMAIN d /\ IsStrList(d[f])

Construct(x, strF, listF) ==
    IF x.t # "obj" THEN [ok |-> FALSE, cause |-> "TypeError"]
    ELSE IF ~FieldsValid(x.v, strF, listF)
    THEN [ok |-> FALSE, cause |-> "ValidationError"]
    ELSE [ok |-> TRUE,
          val |-> [f \in strF \cup listF |->
                     IF f \in strF THEN x.v[f].v ELSE StrListOf(x.v[f])]]

\* a lookup that lets any text through
DeityTypeOfAnyStr(x) ==
    IF x.t = "str"
    THEN [ok |-> TRUE, val |-> x.v]
    ELSE [ok |-> FALSE, cause |-> "ValueError"]

\* DeityType(value): the enum lookup by value
DeityTypeOf(x) ==
    IF x.t = "str" /\ x.v \in DeityType
    THEN [ok |-> TRUE, val |-> x.v]
    ELSE [ok |-> FALSE, cause |-> "ValueError"]

ReligionStr == {"name", "description", "language", "religious_leaders", "creation_myth"}
ReligionList == {"core_beliefs", "practices", "holy_places"}
ReligionModels == {"deities", "sacred_texts", "rituals", "moral_rules", "legends", "symbols"}

(***************************************************************************)
(* religion_generator.py: _convert_to_models                               *)
(***************************************************************************)
Min(S) == CHOOSE m \in S : \A n \in S : m <= n

\* items = []; for item_data in <x>: items.append(Model(**item_data))
\* Iterating a str yields its characters, iterating a dict its keys, and
\* Model(**s) of a str raises TypeError; None is not iterable.
ConvertList(x, strF, listF) ==
    IF x.t = "list"
    THEN LET r == [i \in 1..Len(x.v) |-> Construct(x.v[i], strF, listF)]
             bad == {i \in 1..Len(x.v) : ~r[i].ok}
         IN  IF bad = {}
             THEN [ok |-> TRUE, val |-> [i \in 1..Len(x.v) |-> r[i].val]]
             ELSE [ok |-> FALSE, cause |-> r[Min(bad)].cause]
    ELSE IF (x.t = "str" /\ x.v = "") \/ (x.t = "obj" /\ DOMAIN x.v = {})
    THEN [ok |-> TRUE, val |-> <<>>]
    ELSE [ok |-> FALSE, cause |-> "TypeError"]

\* the keyword arguments of Religion(...), lines 113-128, before validation
ReligionArgs(raw) ==
    [name |-> Get(raw, "name", JStr("Unnamed Religion")),
     description |-> Get(raw, "description", JStr("")),
     language |-> Get(raw, "language", JStr("Turkish")),
     core_beliefs |-> Get(raw, "core_beliefs", JList(<<>>)),
     practices |-> Get(raw, "practices", JList(<<>>)),
     holy_places |-> Get(raw, "holy_places", JList(<<>>)),
     religious_leaders |-> Get(raw, "religious_leaders", JStr("")),
     creation_myth |-> Get(raw, "creation_myth", JStr(""))]

ConversionError(cause) == [st |-> "error", err |-> <<"Data conversion error", cause>>]

convert_to_models(raw) ==
    LET deities == ConvertList(Get(raw, "deities", JList(<<>>)), DeityStr, DeityList)
        sacred_texts == ConvertList(Get(raw, "sacred_texts", JList(<<>>)),
                                    SacredTextStr, SacredTextList)
        rituals == ConvertList(Get(raw, "rituals", JList(<<>>)), RitualStr, RitualList)
        moral_rules == ConvertList(Get(raw, "moral_rules", JList(<<>>)),
                                   MoralRuleStr, MoralRuleList)
        legends == ConvertList(Get(raw, "legends", JList(<<>>)),
                               MythologicalLegendStr, MythologicalLegendList)
        reward_punishment == Construct(Get(raw, "reward_punishment", JObj(EmptyMap)),
                                       RewardPunishmentStr, RewardPunishmentList)
        symbols == ConvertList(Get(raw, "symbols", JList(<<>>)), SymbolStr, SymbolList)
        deity_type == DeityTypeOf(Get(raw, "deity_type", JStr("polytheistic")))
        args == ReligionArgs(raw)
    IN  IF ~deities.ok THEN ConversionError(deities.cause)
        ELSE IF ~sacred_texts.ok THEN ConversionError(sacred_texts.cause)
        ELSE IF ~rituals.ok THEN ConversionError(rituals.cause)
        ELSE IF ~moral_rules.ok THEN ConversionError(moral_rules.cause)
        ELSE IF ~legends.ok THEN ConversionError(legends.cause)
        ELSE IF ~reward_punishment.ok THEN ConversionError(reward_punishment.cause)
        ELSE IF ~symbols.ok THEN ConversionError(symbols.cause)
        ELSE IF ~deity_type.ok THEN ConversionError(deity_type.cause)
        ELSE IF ~FieldsValid(args, ReligionStr, ReligionList)
        THEN ConversionError("ValidationError")
        ELSE [st |-> "ok",
              val |-> [name |-> args.name.v,
                       description |-> args.description.v,
                       deity_type |-> deity_type.val,
                       language |-> args.language.v,
                       deities |-> deities.val,
                       sacred_texts |-> sacred_texts.val,
                       rituals |-> rituals.val,
                       moral_rules |-> moral_rules.val,
                       legends |-> legends.val,
                       reward_punishment |-> reward_punishment.val,
                       symbols |-> symbols.val,
                       core_beliefs |-> StrListOf(args.core_beliefs),
                       practices |-> StrListOf(args.practices),
                       holy_places |-> StrListOf(args.holy_places),
                       religious_leaders |-> args.religious_leaders.v,
                       creation_myth |-> args.creation_myth.v]]

(***************************************************************************)
(* Backend text.  A text is a sequence of lexical tokens: the punctuation  *)
(* of JSON, string literals, the literal null, and "x" for a character of  *)
(* prose that belongs to no JSON token.  Positions are 0-based as in the   *)
(* code.                                                                   *)
(***************************************************************************)
Tok(c) == [c |-> c, s |-> ""]
StrTok(s) == [c |-> "str", s |-> s]

\* str.find(c): the index of the first occurrence, or -1
Find(text, c) ==
    LET hits == {i \in 1..Len(text) : text[i].c = c}
    IN  IF hits = {} THEN -1 ELSE Min(hits) - 1

Max(S) == CHOOSE m \in S : \A n \in S : m >= n

\* a search that answers 0 for a character that does not occur
RFindZero(text, c) ==
    LET hits == {i \in 1..Len(text) : text[i].c = c}
    IN  IF hits = {} THEN 0 ELSE Max(hits) - 1

\* str.rfind(c): the index of the last occurrence, or -1
RFind(text, c) ==
    LET hits == {i \in 1..Len(text) : text[i].c = c}
    IN  IF hits = {} THEN -1 ELSE Max(hits) - 1

\* text[a:b] for a, b >= 0
Slice(text, a, b) == SubSeq(text, a + 1, IF b > Len(text) THEN Len(text) ELSE b)

\* json.loads: a recursive-descent reading of one JSON value
At(toks, i) == IF i >= 1 /\ i <= Len(toks) THEN toks[i].c ELSE "eof"

ParseFail == [ok |-> FALSE, val |-> JNull, next |-> 0]

RECURSIVE ParseValue(_, _), ParseMembers(_, _, _), ParseElems(_, _, _)

\* after the value x of "key": a comma and more pairs, or the closing brace;
\* a repeated key keeps the last value
MembersNext(toks, key, acc, x) ==
    IF ~x.ok THEN ParseFail
    ELSE IF At(toks, x.next) = ","
    THEN ParseMembers(toks, x.next + 1,
                      [k \in DOMAIN acc \cup {key} |-> IF k = key THEN x.val ELSE acc[k]])
    ELSE IF At(toks, x.next) = "}"
    THEN [ok |-> TRUE,
          val |-> JObj([k \in DOMAIN acc \cup {key} |-> IF k = key THEN x.val ELSE acc[k]]),
          next |-> x.next + 1]
    ELSE ParseFail

\* after the element x of an array: a comma and more elements, or the closing bracket
ElemsNext(toks, acc, x) ==
    IF ~x.ok THEN ParseFail
    ELSE IF At(toks, x.next) = ","
    THEN ParseElems(toks, x.next + 1, Append(acc, x.val))
    ELSE IF At(toks, x.next) = "]"
    THEN [ok |-> TRUE, val |-> JList(Append(acc, x.val)), next |-> x.next + 1]
    ELSE ParseFail

ParseValue(toks, i) ==
    LET c == At(toks, i)
    IN  IF c = "str" THEN [ok |-> TRUE, val |-> JStr(toks[i].s), next |-> i + 1]
        ELSE IF c = "null" THEN [ok |-> TRUE, val |-> JNull, next |-> i + 1]
        ELSE IF c = "{"
        THEN IF At(toks, i + 1) = "}"
             THEN [ok |-> TRUE, val |-> JObj(EmptyMap), next |-> i + 2]
             ELSE ParseMembers(toks, i + 1, EmptyMap)
        ELSE IF c = "["
        THEN IF At(toks, i + 1) = "]"
             THEN [ok |-> TRUE, val |-> JList(<<>>), next |-> i + 2]
             ELSE ParseElems(toks, i + 1, <<>>)
        ELSE ParseFail

ParseMembers(toks, i, acc) ==
    IF At(toks, i) = "str" /\ At(toks, i + 1) = ":"
    THEN MembersNext(toks, toks[i].s, acc, ParseValue(toks, i + 2))
    ELSE ParseFail

ParseElems(toks, i, acc) == ElemsNext(toks, acc, ParseValue(toks, i))

\* the whole of s must be one value, else JSONDecodeError
WholeValue(toks, x) ==
    IF x.ok /\ x.next = Len(toks) + 1
    THEN [ok |-> TRUE, val |-> x.val]
    ELSE [ok |-> FALSE, val |-> JNull]

\* json.loads(s)
JsonLoads(toks) == WholeValue(toks, ParseValue(toks, 1))

(***************************************************************************)
(* gemini_client.py: _parse_response                                       *)
(***************************************************************************)
\* return json.loads(json_str), or the JSONDecodeError handler
\* (loads: whether json.loads was called)
LoadsOutcome(x) ==
    IF x.ok
    THEN [st |-> "ok", loads |-> TRUE, val |-> x.val]
    ELSE [st |-> "error", loads |-> TRUE,
          err |-> <<"JSON parse error", "JSONDecodeError">>]

SliceAndLoad(text, start_idx, end_idx) ==
    IF start_idx = -1 \/ end_idx = 0
    THEN [st |-> "error", loads |-> FALSE,
          err |-> <<"Response processing error", "Valid JSON format not found">>]
    ELSE LoadsOutcome(JsonLoads(Slice(text, start_idx, end_idx)))

parse_response(text) == SliceAndLoad(text, Find(text, "{"), RFind(text, "}") + 1)

(***************************************************************************)
(* gemini_client.py: the prompt and the backend call                       *)
(***************************************************************************)
\* None, and like it "", is falsy in `theme or "general"`
None == ""

SupportedLanguages ==
    {"Turkish", "English", "Spanish", "French", "German", "Italian",
     "Portuguese", "Russian", "Arabic", "Japanese", "Chinese"}

\* language_map: the opening words of each directive
language_map ==
    [l \in SupportedLanguages |->
        CASE l = "Turkish" -> "TUM ICERIGI TURKCE OLARAK URET."
          [] l = "English" -> "GENERATE ALL CONTENT IN ENGLISH."
          [] l = "Spanish" -> "GENERA TODO EL CONTENIDO EN ESPANOL."
          [] l = "French" -> "GENEREZ TOUT LE CONTENU EN FRANCAIS."
          [] l = "German" -> "GENERIEREN SIE ALLE INHALTE AUF DEUTSCH."
          [] l = "Italian" -> "GENERA TUTTO IL CONTENUTO IN ITALIANO."
          [] l = "Portuguese" -> "GERE TODO O CONTEUDO EM PORTUGUES."
          [] l = "Russian" -> "(all content in Russian)"
          [] l = "Arabic" -> "(all content in Arabic)"
          [] l = "Japanese" -> "(all content in Japanese)"
          [] l = "Chinese" -> "(all content in Chinese)"]

\* language_map.get(language, language_map["English"])
InstructionsOrEnglish(language) ==
    IF language \in DOMAIN language_map
    THEN language_map[language]
    ELSE language_map["English"]

get_language_instructions(language) ==
    IF language \in DOMAIN language_map
    THEN language_map[language]
    ELSE language_map["Turkish"]

\* the parts of the prompt text that depend on the parameters
create_religion_prompt(theme, culture, complexity, deity_type, language) ==
    [theme |-> IF theme = None THEN "general" ELSE theme,
     culture |-> IF culture = None THEN "universal" ELSE culture,
     complexity |-> complexity,
     deity_type |-> IF deity_type = None THEN "polytheistic" ELSE deity_type,
     language |-> language,
     language_instructions |-> get_language_instructions(language)]

\* what self.model.generate_content(prompt) does: it raises, or returns text
Raised == [raised |-> TRUE, text |-> <<>>]
TextReply(text) == [raised |-> FALSE, text |-> text]

GeminiError(inner) == [st |-> "error", err |-> <<"Gemini API error">> \o inner]

\* GeminiClient.generate_religion: the try block holds both the backend call
\* and _parse_response, and every exception leaves as "Gemini API error: ..."
ParsedOrGeminiError(p) ==
    IF p.st = "ok" THEN [st |-> "ok", val |-> p.val.v] ELSE GeminiError(p.err)

gemini_generate_religion(reply) ==
    IF reply.raised THEN GeminiError(<<"backend failure">>)
    ELSE ParsedOrGeminiError(parse_response(reply.text))

(***************************************************************************)
(* religion_generator.py: generate_religion                                *)
(***************************************************************************)
\* raw data from Gemini, then the conversion; an exception is logged and re-raised
ConvertOrReraise(raw) == IF raw.st = "ok" THEN convert_to_models(raw.val) ELSE raw

generate_religion(reply) == ConvertOrReraise(gemini_generate_religion(reply))

(***************************************************************************)
(* The payload the prompt of _create_religion_prompt asks the backend for  *)
(* (one element per array, every field filled), and the ways a reply can   *)
(* depart from it: the backend's text is free, so any key may be missing   *)
(* or hold a value of another type.                                        *)
(***************************************************************************)
StrList2 == JList(<<JStr("a"), JStr("b")>>)

\* the str and List[str] fields of the model built for top-level key k
StrFieldsOf(k) ==
    CASE k = "deities" -> DeityStr
      [] k = "sacred_texts" -> SacredTextStr
      [] k = "rituals" -> RitualStr
      [] k = "moral_rules" -> MoralRuleStr
      [] k = "legends" -> MythologicalLegendStr
      [] k = "reward_punishment" -> RewardPunishmentStr
      [] k = "symbols" -> SymbolStr

ListFieldsOf(k) ==
    CASE k = "deities" -> DeityList
      [] k = "sacred_texts" -> SacredTextList
      [] k = "rituals" -> RitualList
      [] k = "moral_rules" -> MoralRuleList
      [] k = "legends" -> MythologicalLegendList
      [] k = "reward_punishment" -> RewardPunishmentList
      [] k = "symbols" -> SymbolList

TemplateElem(k) ==
    JObj([f \in StrFieldsOf(k) \cup ListFieldsOf(k) |->
            IF f \in StrFieldsOf(k) THEN JStr(f) ELSE StrList2])

TopKeys == ReligionStr \cup ReligionList \cup ReligionModels
               \cup {"deity_type", "reward_punishment"}

TemplatePayload ==
    [k \in TopKeys |->
        IF k \in ReligionModels THEN JList(<<TemplateElem(k)>>)
        ELSE IF k = "reward_punishment" THEN TemplateElem(k)
        ELSE IF k \in ReligionList THEN StrList2
        ELSE IF k = "deity_type" THEN JStr("monotheistic")
        ELSE IF k = "name" THEN JStr("X")
        ELSE JStr(k)]

\* values a reply may hold under key k instead of the template's
AltValues(k) ==
    IF k = "deity_type"
    THEN {JNull, JList(<<>>), JStr("Monotheistic"), JStr("henotheistic"), JStr("")}
            \cup {JStr(d) : d \in {"monotheistic", "polytheistic", "pantheistic", "animistic"}}
    ELSE {JNull, JStr(""), JStr("x"), JList(<<>>), JList(<<JNull>>), JObj(EmptyMap)}

AltFieldValues == {JNull, JStr(""), JList(<<>>)}

AltElems(k) == {TemplateElem(k), JObj(EmptyMap), JNull, JStr("x")}

Without(d, key) == [k \in DOMAIN d \ {key} |-> d[k]]
With(d, key, val) == [k \in DOMAIN d \cup {key} |-> IF k = key THEN val ELSE d[k]]

NotRun == [st |-> "none"]

CoerceIdle ==
    /\ raw_data = TemplatePayload
    /\ edits = 0
    /\ conv = NotRun

ParseIdle ==
    /\ response_text = <<>>
    /\ parsed = NotRun

PipeIdle ==
    /\ backend = "none"
    /\ result = NotRun

LoopIdle ==
    loop = [pc |-> "idle", base_theme |-> "", count |-> 0, i |-> 0,
            variations |-> <<>>, log |-> <<>>]

\* generated_religions = {} at import; no request served yet
StoreIdle ==
    /\ generated_religions = <<>>
    /\ clock = 0
    /\ last = [op |-> "none", status |-> 0]
    /\ calls = <<>>
    /\ events = 0
    /\ request = [op |-> "none"]

\* no pair of overlapping expand requests is being followed
RaceIdle == race = [pc |-> "idle"]

InitCoerce == CoerceIdle /\ ParseIdle /\ PipeIdle /\ LoopIdle /\ StoreIdle /\ RaceIdle

CanEdit == conv = NotRun /\ edits < MaxEdits

\* the reply lacks a top-level key
DropKey ==
    /\ CanEdit
    /\ \E k \in DOMAIN raw_data : raw_data' = Without(raw_data, k)
    /\ edits' = edits + 1
    /\ UNCHANGED <<conv, parseVars, pipeVars, loop, storeVars, race>>

\* the reply holds another value under a top-level key
SetKey ==
    /\ CanEdit
    /\ \E k \in TopKeys : \E x \in AltValues(k) : raw_data' = With(raw_data, k, x)
    /\ edits' = edits + 1
    /\ UNCHANGED <<conv, parseVars, pipeVars, loop, storeVars, race>>

\* an array of the reply has one more element
AppendElem ==
    /\ CanEdit
    /\ \E k \in ReligionModels : \E e \in AltElems(k) :
          /\ k \in DOMAIN raw_data
          /\ raw_data[k].t = "list"
          /\ raw_data' = With(raw_data, k, JList(Append(raw_data[k].v, e)))
    /\ edits' = edits + 1
    /\ UNCHANGED <<conv, parseVars, pipeVars, loop, storeVars, race>>

\* the sub-mappings of the reply under key k, as <<index, mapping>>
\* (index 0: the value under k itself is the mapping)
SubMappings(raw, k) ==
    IF k \notin DOMAIN raw THEN {}
    ELSE IF raw[k].t = "obj" THEN {<<0, raw[k]>>}
    ELSE IF raw[k].t = "list"
    THEN {<<i, raw[k].v[i]>> : i \in {j \in 1..Len(raw[k].v) : raw[k].v[j].t = "obj"}}
    ELSE {}

PutSub(raw, k, i, m) ==
    IF i = 0 THEN With(raw, k, m)
    ELSE With(raw, k, JList([raw[k].v EXCEPT ![i] = m]))

\* an element of the reply lacks a field
DropElemField ==
    /\ CanEdit
    /\ \E k \in ReligionModels \cup {"reward_punishment"} :
         \E im \in SubMappings(raw_data, k) :
           \E f \in DOMAIN im[2].v :
              raw_data' = PutSub(raw_data, k, im[1], JObj(Without(im[2].v, f)))
    /\ edits' = edits + 1
    /\ UNCHANGED <<conv, parseVars, pipeVars, loop, storeVars, race>>

\* an element of the reply holds another value in a field
SetElemField ==
    /\ CanEdit
    /\ \E k \in ReligionModels \cup {"reward_punishment"} :
         \E im \in SubMappings(raw_data, k) :
           \E f \in DOMAIN im[2].v, x \in AltFieldValues :
              raw_data' = PutSub(raw_data, k, im[1], JObj(With(im[2].v, f, x)))
    /\ edits' = edits + 1
    /\ UNCHANGED <<conv, parseVars, pipeVars, loop, storeVars, race>>

\* ReligionGenerator._convert_to_models(raw_data)
Convert ==
    /\ conv = NotRun
    /\ conv' = convert_to_models(raw_data)
    /\ UNCHANGED <<raw_data, edits, parseVars, pipeVars, loop, storeVars, race>>

NextCoerce == DropKey \/ SetKey \/ AppendElem \/ DropElemField \/ SetElemField \/ Convert

SpecCoerce == InitCoerce /\ [][NextCoerce]_vars

(***************************************************************************)
(* Reply texts: a payload written out as JSON, with or without prose       *)
(* around it.                                                              *)
(***************************************************************************)
RECURSIVE SetToSeq(_)
SetToSeq(S) ==
    IF S = {} THEN <<>>
    ELSE LET k == CHOOSE x \in S : TRUE IN <<k>> \o SetToSeq(S \ {k})

RECURSIVE JsonDumps(_), DumpMembers(_, _), DumpElems(_, _)

JsonDumps(x) ==
    IF x.t = "str" THEN <<StrTok(x.v)>>
    ELSE IF x.t = "null" THEN <<Tok("null")>>
    ELSE IF x.t = "list" THEN <<Tok("[")>> \o DumpElems(x.v, 1) \o <<Tok("]")>>
    ELSE <<Tok("{")>> \o DumpMembers(x.v, SetToSeq(DOMAIN x.v)) \o <<Tok("}")>>

DumpMembers(d, keys) ==
    IF keys = <<>> THEN <<>>
    ELSE <<StrTok(Head(keys)), Tok(":")>> \o JsonDumps(d[Head(keys)])
            \o (IF Len(keys) > 1 THEN <<Tok(",")>> ELSE <<>>)
            \o DumpMembers(d, Tail(keys))

DumpElems(l, i) ==
    IF i > Len(l) THEN <<>>
    ELSE JsonDumps(l[i]) \o (IF i < Len(l) THEN <<Tok(",")>> ELSE <<>>)
            \o DumpElems(l, i + 1)

\* the template payload between two words of prose
TemplateText == <<Tok("x")>> \o JsonDumps(JObj(TemplatePayload)) \o <<Tok("x")>>

\* a payload holding nothing but reward_punishment
MinimalPayload == [k \in {"reward_punishment"} |-> TemplateElem(k)]
MinimalText == JsonDumps(JObj(MinimalPayload))

\* the template payload with a deity_type outside the enumeration
BadDeityTypeText ==
    JsonDumps(JObj(With(TemplatePayload, "deity_type", JStr("henotheistic"))))

\* the template payload cut off before its closing brace
TruncatedText ==
    LET full == JsonDumps(JObj(TemplatePayload)) IN SubSeq(full, 1, Len(full) - 1)

ReligionTexts == {TemplateText, MinimalText, BadDeityTypeText, TruncatedText}

(***************************************************************************)
(* The generate-religion pipeline on a reply: the backend raises, or       *)
(* returns response_text.                                                  *)
(***************************************************************************)
InitPipeline ==
    /\ CoerceIdle
    /\ PipeIdle
    /\ LoopIdle
    /\ StoreIdle
    /\ RaceIdle
    /\ parsed = NotRun
    /\ response_text \in {<<>>} \cup ReligionTexts

\* ReligionGenerator.generate_religion, the backend call raising
GenerateBackendFails ==
    /\ result = NotRun
    /\ backend' = "raised"
    /\ result' = generate_religion(Raised)
    /\ UNCHANGED <<coerceVars, parseVars, loop, storeVars, race>>

\* ReligionGenerator.generate_religion, the backend returning response_text
GenerateFromText ==
    /\ result = NotRun
    /\ backend' = "text"
    /\ result' = generate_religion(TextReply(response_text))
    /\ UNCHANGED <<coerceVars, parseVars, loop, storeVars, race>>

(***************************************************************************)
(* religion_generator.py: generate_religion_variations, one step per       *)
(* iteration of `for i in range(count)`.  loop.log keeps, for every call   *)
(* of generate_religion made, its arguments and what it returned.          *)
(***************************************************************************)
cultures == <<"antik", "modern", "fantastik", "futuristik", "tribal">>
complexities == <<"simple", "medium", "complex">>

Themes == {"nature", "war"}

\* what the backend may answer to a religion prompt
ReligionReplies == {Raised, TextReply(<<>>)} \cup {TextReply(tx) : tx \in ReligionTexts}

\* cultures[i % len(cultures)] with an off-by-one index
CultureOfNext(i) == cultures[((i + 1) % Len(cultures)) + 1]

\* cultures[i % len(cultures)]
CultureOf(i) == cultures[(i % Len(cultures)) + 1]

\* complexities[i % len(complexities)]
ComplexityOf(i) == complexities[(i % Len(complexities)) + 1]

\* leaving the loop at the first failure
BreakOnError(lp) == [lp EXCEPT !.i = IF lp.count > lp.i THEN lp.count ELSE lp.i + 1]

\* except Exception: logger.warning(...); continue
ContinueOnError(lp) == [lp EXCEPT !.i = lp.i + 1]

\* variations.append(religion)
KeepVariation(lp, religion) ==
    [lp EXCEPT !.variations = Append(lp.variations, religion), !.i = lp.i + 1]

\* the call of generate_religion made for index lp.i, and what it returned
LogCall(lp, culture, complexity, r) ==
    [lp EXCEPT !.log = Append(lp.log,
        [theme |-> lp.base_theme, culture |-> culture, complexity |-> complexity,
         prompt |-> create_religion_prompt(lp.base_theme, culture, complexity,
                                           None, "Turkish"),
         ok |-> r.st = "ok",
         religion |-> IF r.st = "ok" THEN r.val ELSE <<>>])]

\* try: variations.append(generate_religion(...)) except Exception: continue
TryVariation(lp, culture, complexity, r) ==
    IF r.st = "ok"
    THEN KeepVariation(LogCall(lp, culture, complexity, r), r.val)
    ELSE ContinueOnError(LogCall(lp, culture, complexity, r))

\* the body of the loop for index lp.i, the backend answering reply
VariationBody(lp, reply) ==
    TryVariation(lp, CultureOf(lp.i), ComplexityOf(lp.i), generate_religion(reply))

\* range(count) still has an index to give
InRange(lp) == lp.i < lp.count

\* generate_religion_variations(base_theme, count) is called
VariationsCall ==
    /\ loop.pc = "idle"
    /\ \E base_theme \in Themes, count \in -1..MaxCount :
          loop' = [pc |-> "run", base_theme |-> base_theme, count |-> count, i |-> 0,
                   variations |-> <<>>, log |-> <<>>]
    /\ UNCHANGED <<coerceVars, parseVars, pipeVars, storeVars, race>>

\* one iteration of the loop
VariationsIter ==
    /\ loop.pc = "run"
    /\ InRange(loop)
    /\ \E reply \in ReligionReplies : loop' = VariationBody(loop, reply)
    /\ UNCHANGED <<coerceVars, parseVars, pipeVars, storeVars, race>>

\* return variations
VariationsReturn ==
    /\ loop.pc = "run"
    /\ ~InRange(loop)
    /\ loop' = [loop EXCEPT !.pc = "done"]
    /\ UNCHANGED <<coerceVars, parseVars, pipeVars, storeVars, race>>

InitVariations == CoerceIdle /\ ParseIdle /\ PipeIdle /\ LoopIdle /\ StoreIdle /\ RaceIdle

NextVariations == VariationsCall \/ VariationsIter \/ VariationsReturn

SpecVariations == InitVariations /\ [][NextVariations]_vars

(***************************************************************************)
(* _parse_response on every short text                                     *)
(***************************************************************************)
Alphabet == {Tok("{"), Tok("}"), Tok("x"), Tok(":"), Tok(","), StrTok("name")}

InitParse == CoerceIdle /\ ParseIdle /\ PipeIdle /\ LoopIdle /\ StoreIdle /\ RaceIdle

\* the backend writes one more token of its reply
Emit ==
    /\ parsed = NotRun
    /\ result = NotRun
    /\ Len(response_text) < MaxTextLen
    /\ \E tk \in Alphabet : response_text' = Append(response_text, tk)
    /\ UNCHANGED <<parsed, coerceVars, pipeVars, loop, storeVars, race>>

\* GeminiClient._parse_response(response_text)
ParseResponse ==
    /\ parsed = NotRun
    /\ parsed' = parse_response(response_text)
    /\ UNCHANGED <<response_text, coerceVars, pipeVars, loop, storeVars, race>>

NextParse == Emit \/ ParseResponse

SpecParse == InitParse /\ [][NextParse]_vars

NextPipeline == Emit \/ GenerateBackendFails \/ GenerateFromText

SpecPipeline == InitPipeline /\ [][NextPipeline]_vars

(***************************************************************************)
(* gemini_client.py: generate_specific_component;                          *)
(* religion_generator.py: generate_specific_component, expand_religion     *)
(***************************************************************************)
ComponentTypes == {"deity", "ritual", "legend"}

\* the kind is looked up only after the backend has been called
UnsupportedAfterCall(component_type) ==
    [st |-> "error", called |-> TRUE,
     err |-> <<"Unsupported component type", component_type>>]

\* the prompts dict has no entry: ValueError, raised before the try block
Unsupported(component_type) ==
    [st |-> "error", called |-> FALSE,
     err |-> <<"Unsupported component type", component_type>>]

\* Exception(f"Component generation error: {str(e)}")
ComponentError(inner) ==
    [st |-> "error", called |-> TRUE, err |-> <<"Component generation error">> \o inner]

ParsedOrComponentError(p) ==
    IF p.st = "ok" THEN [st |-> "ok", called |-> TRUE, val |-> p.val.v]
    ELSE ComponentError(p.err)

\* prompts.get(component_type, prompts["deity"]) instead of the rejection
DefaultToDeityPrompt(component_type, reply) ==
    IF reply.raised THEN ComponentError(<<"backend failure">>)
    ELSE ParsedOrComponentError(parse_response(reply.text))

\* GeminiClient.generate_specific_component
gemini_generate_specific_component(component_type, reply) ==
    IF component_type \notin ComponentTypes THEN Unsupported(component_type)
    ELSE IF reply.raised THEN ComponentError(<<"backend failure">>)
    ELSE ParsedOrComponentError(parse_response(reply.text))

\* ReligionGenerator.generate_specific_component: the context names the
\* existing religion and its core beliefs, and reads nothing else of it
ComponentContext(context, existing_religion) ==
    IF existing_religion = <<>>
    THEN [context |-> context, name |-> "", core_beliefs |-> <<>>]
    ELSE [context |-> context, name |-> existing_religion.name,
          core_beliefs |-> existing_religion.core_beliefs]

\* religion.<field>.insert(0, new) instead of append
PrependComponent(religion, field, new) ==
    [religion EXCEPT ![field] = <<new>> \o religion[field]]

\* religion.<field>.append(new)
AppendComponent(religion, field, new) ==
    [religion EXCEPT ![field] = Append(religion[field], new)]

\* new = Model(**new_component); religion.<field>.append(new)
BuildAndAppend(religion, field, built) ==
    IF built.ok THEN [st |-> "ok", val |-> AppendComponent(religion, field, built.val)]
    ELSE [st |-> "error", err |-> <<built.cause>>]

\* ReligionGenerator.expand_religion, given what generate_specific_component did
expand_religion(religion, component_type, comp) ==
    IF comp.st = "error" THEN [st |-> "error", err |-> comp.err]
    ELSE IF component_type = "deity"
    THEN BuildAndAppend(religion, "deities",
                        Construct(JObj(comp.val), DeityStr, DeityList))
    ELSE IF component_type = "ritual"
    THEN BuildAndAppend(religion, "rituals",
                        Construct(JObj(comp.val), RitualStr, RitualList))
    ELSE IF component_type = "legend"
    THEN BuildAndAppend(religion, "legends",
                        Construct(JObj(comp.val), MythologicalLegendStr,
                                  MythologicalLegendList))
    ELSE [st |-> "ok", val |-> religion]

(***************************************************************************)
(* main.py: the store and its handlers.  A handler is an async def with no *)
(* await in it, so it runs from its first line to its response in one step.*)
(***************************************************************************)
\* f"religion_{n}_{ts}"
ReligionId(n, ts) == [prefix |-> "religion", theme |-> "", seq |-> n, ts |-> ts]

\* f"variation_{theme}_{i}_{ts}"
VariationId(theme, i, ts) == [prefix |-> "variation", theme |-> theme, seq |-> i, ts |-> ts]

\* an identifier no request was ever answered with
UnknownId == [prefix |-> "religion", theme |-> "", seq |-> 0, ts |-> 0]

Entry(religion, created_at, generation_time) ==
    [religion |-> religion, created_at |-> created_at,
     generation_time |-> generation_time]

\* generated_religions[id] = entry
Put(store, id, entry) ==
    [k \in DOMAIN store \cup {id} |-> IF k = id THEN entry ELSE store[k]]

\* generated_religions.pop(id)
Pop(store, id) == [k \in DOMAIN store \ {id} |-> store[k]]

HTTPError(op, status, detail) == [op |-> op, status |-> status, detail |-> detail]

\* the requests of the model: the defaults, and every parameter given
GenerateRequests ==
    {[theme |-> None, culture |-> None, complexity |-> "medium",
      deity_type |-> None, language |-> "Turkish"],
     [theme |-> "nature", culture |-> "antik", complexity |-> "complex",
      deity_type |-> "monotheistic", language |-> "English"]}

PromptOf(req) ==
    create_religion_prompt(req.theme, req.culture, req.complexity,
                           req.deity_type, req.language)

\* payloads the backend may return: the template, and the template broken
\* at one point of the walk of _convert_to_models
StorePayloads ==
    {TemplatePayload,
     PutSub(TemplatePayload, "deities", 1, JObj(Without(TemplateElem("deities").v, "title"))),
     With(TemplatePayload, "symbols", JList(<<TemplateElem("symbols"), JNull>>)),
     Without(TemplatePayload, "reward_punishment"),
     With(TemplatePayload, "deity_type", JStr("henotheistic")),
     With(TemplatePayload, "name", JNull)}

\* what the backend answers in the store's model: a failure of its own, a
\* text without braces, or one of the payloads as text
StoreReplies ==
    {Raised, TextReply(<<>>)} \cup {TextReply(JsonDumps(JObj(p))) : p \in StorePayloads}

\* religion_generator.generate_religion(...) on each of these answers: what
\* the client returned or raised, and what the generator did with it
GenerateRuns ==
    {[reply |-> rp, raw |-> gemini_generate_religion(rp), r |-> generate_religion(rp)] :
        rp \in StoreReplies}

\* a component as the component prompts ask for it
ComponentPayload(k) ==
    [f \in DOMAIN TemplateElem(k).v |->
        IF f \in {"name", "title"} THEN JStr("new") ELSE TemplateElem(k).v[f]]

ComponentTexts == {JsonDumps(JObj(ComponentPayload(k))) : k \in {"deities", "rituals", "legends"}}

ComponentReplies == {Raised, TextReply(<<>>)} \cup {TextReply(tx) : tx \in ComponentTexts}

\* component kinds a request may name that the client has no prompt for
OtherKinds == {"weather"}

\* gemini_client.generate_specific_component(component_type, ...) on each answer
ComponentRuns ==
    {[component_type |-> ct, reply |-> rp,
      comp |-> gemini_generate_specific_component(ct, rp)] :
        ct \in ComponentTypes \cup OtherKinds, rp \in ComponentReplies}

\* the entry is stored before the generator's outcome is looked at
StoreThenAnswer(store, start_time, r) ==
    LET religion_id == ReligionId(Cardinality(DOMAIN store) + 1, start_time)
    IN  [store |-> Put(store, religion_id, Entry(r, start_time, 0)),
         response |-> IF r.st = "ok"
                      THEN [op |-> "generate", status |-> 200, id |-> religion_id,
                            religion |-> r.val, created_at |-> start_time,
                            generation_time |-> 0]
                      ELSE HTTPError("generate", 500,
                                     <<"Religion generation error">> \o r.err)]

\* main.generate_religion after religion_generator.generate_religion returned
\* or raised r: store under a new id and answer 200, or answer 500
GenerateOutcome(store, start_time, r) ==
    IF r.st = "ok"
    THEN LET religion_id == ReligionId(Cardinality(DOMAIN store) + 1, start_time)
         IN  [store |-> Put(store, religion_id, Entry(r.val, start_time, 0)),
              response |-> [op |-> "generate", status |-> 200, id |-> religion_id,
                            religion |-> r.val, created_at |-> start_time,
                            generation_time |-> 0]]
    ELSE [store |-> store,
          response |-> HTTPError("generate", 500, <<"Religion generation error">> \o r.err)]

\* main.expand_religion after religion_generator.expand_religion returned or raised x
ExpandOutcome(store, religion_id, component_type, x) ==
    IF x.st = "ok"
    THEN [store |-> [store EXCEPT ![religion_id].religion = x.val],
          response |-> [op |-> "expand", status |-> 200, religion_id |-> religion_id,
                        added_component |-> component_type, religion |-> x.val]]
    ELSE [store |-> store,
          response |-> HTTPError("expand", 500, <<"Religion expansion error">> \o x.err)]

NotFound(op, store) ==
    [store |-> store, response |-> HTTPError(op, 404, <<"Religion not found">>)]

\* the handler's effect: the store, the response, the backend calls made
Commit(req, out, prompts) ==
    /\ events < MaxEvents
    /\ events' = events + 1
    /\ request' = req
    /\ generated_religions' = out.store
    /\ last' = out.response
    /\ calls' = prompts
    /\ UNCHANGED clock

\* the request did not call _convert_to_models, or not as its last call
NoConversion == raw_data' = TemplatePayload /\ conv' = NotRun

\* POST /religions/generate (the handler takes less than a second); raw_data
\* and conv are the argument and the outcome of the request's call of
\* _convert_to_models, if it got that far
GenerateReligion ==
    /\ \E req \in GenerateRequests, run \in GenerateRuns :
          /\ Commit([op |-> "generate", body |-> req],
                    GenerateOutcome(generated_religions, clock, run.r), <<PromptOf(req)>>)
          /\ IF run.raw.st = "ok"
             THEN raw_data' = run.raw.val /\ conv' = run.r
             ELSE NoConversion
    /\ UNCHANGED <<edits, parseVars, pipeVars, loop, race>>

\* POST /religions/{religion_id}/expand
ExpandReligion ==
    /\ \E religion_id \in DOMAIN generated_religions \cup {UnknownId},
          run \in ComponentRuns :
          IF religion_id \notin DOMAIN generated_religions
          THEN Commit([op |-> "expand", religion_id |-> religion_id,
                       component_type |-> run.component_type],
                      NotFound("expand", generated_religions), <<>>)
          ELSE Commit([op |-> "expand", religion_id |-> religion_id,
                       component_type |-> run.component_type],
                      ExpandOutcome(generated_religions, religion_id, run.component_type,
                         expand_religion(generated_religions[religion_id].religion,
                                         run.component_type, run.comp)),
                      IF run.comp.called
                      THEN <<[component_type |-> run.component_type,
                              context |-> ComponentContext("expand",
                                 generated_religions[religion_id].religion)]>>
                      ELSE <<>>)
    /\ NoConversion
    /\ UNCHANGED <<edits, parseVars, pipeVars, loop, race>>

\* main.generate_component after the generator returned or raised comp
ComponentOutcome(store, component_type, comp) ==
    IF comp.st = "ok"
    THEN [store |-> store,
          response |-> [op |-> "component", status |-> 200,
                        component |-> comp.val, component_type |-> component_type]]
    ELSE [store |-> store,
          response |-> HTTPError("component", 500,
                                 <<"Component generation error">> \o comp.err)]

\* POST /components/generate: the religion named by the request, if stored,
\* gives the context
GenerateComponent ==
    /\ \E religion_id \in DOMAIN generated_religions \cup {UnknownId},
          run \in ComponentRuns :
          Commit([op |-> "component", component_type |-> run.component_type,
                  context |-> "", religion_id |-> religion_id],
                 ComponentOutcome(generated_religions, run.component_type, run.comp),
                 IF run.comp.called
                 THEN <<[component_type |-> run.component_type,
                         context |-> ComponentContext("",
                            IF religion_id \in DOMAIN generated_religions
                            THEN generated_religions[religion_id].religion
                            ELSE <<>>)]>>
                 ELSE <<>>)
    /\ NoConversion
    /\ UNCHANGED <<edits, parseVars, pipeVars, loop, race>>

\* what the backend may answer to the prompt of one variation
VariationReplies ==
    {Raised, TextReply(JsonDumps(JObj(TemplatePayload))),
     TextReply(JsonDumps(JObj(With(TemplatePayload, "name", JStr("Y")))))}

RECURSIVE RunVariations(_, _)
\* the loop of generate_religion_variations from index lp.i on
RunVariations(lp, replies) ==
    IF InRange(lp) THEN RunVariations(VariationBody(lp, replies[lp.i + 1]), replies)
    ELSE lp

\* ReligionGenerator.generate_religion_variations(base_theme, count)
generate_religion_variations(base_theme, count, replies) ==
    RunVariations([pc |-> "run", base_theme |-> base_theme, count |-> count, i |-> 0,
                   variations |-> <<>>, log |-> <<>>], replies)

\* the counts a request for variations may ask for
VariationCounts == {0, 1, 2}

\* generate_religion_variations on each request and each run of answers to
\* its prompts
VariationRuns ==
    UNION {{[base_theme |-> th, count |-> n,
             lp |-> generate_religion_variations(th, n, rs)] : rs \in [1..n -> VariationReplies]} :
           th \in {"nature"}, n \in VariationCounts}

RECURSIVE StoreVariations(_, _, _, _)
\* for i, religion in enumerate(variations): generated_religions[id] = {...},
\* from index i (counted from 1) on
StoreVariations(store, base_theme, variations, i) ==
    IF i > Len(variations) THEN store
    ELSE StoreVariations(Put(store, VariationId(base_theme, i, clock),
                             Entry(variations[i], clock, 0)),
                         base_theme, variations, i + 1)

\* POST /religions/variations
GenerateVariations ==
    /\ \E run \in VariationRuns :
          Commit([op |-> "variations", base_theme |-> run.base_theme, count |-> run.count],
                 [store |-> StoreVariations(generated_religions, run.base_theme,
                                            run.lp.variations, 1),
                  response |->
                     [op |-> "variations", status |-> 200, base_theme |-> run.base_theme,
                      variations |->
                         [i \in 1..Len(run.lp.variations) |->
                             [id |-> VariationId(run.base_theme, i, clock),
                              religion |-> run.lp.variations[i]]],
                      count |-> Len(run.lp.variations)]],
                 [i \in 1..Len(run.lp.log) |-> run.lp.log[i].prompt])
    /\ NoConversion
    /\ UNCHANGED <<edits, parseVars, pipeVars, loop, race>>

\* GET /religions/{religion_id}
GetReligion ==
    /\ \E religion_id \in DOMAIN generated_religions \cup {UnknownId} :
          IF religion_id \notin DOMAIN generated_religions
          THEN Commit([op |-> "get", religion_id |-> religion_id],
                      NotFound("get", generated_religions), <<>>)
          ELSE Commit([op |-> "get", religion_id |-> religion_id],
                      [store |-> generated_religions,
                       response |->
                          [op |-> "get", status |-> 200, id |-> religion_id,
                           religion |-> generated_religions[religion_id].religion,
                           created_at |-> generated_religions[religion_id].created_at,
                           generation_time |->
                              generated_religions[religion_id].generation_time]],
                      <<>>)
    /\ NoConversion
    /\ UNCHANGED <<edits, parseVars, pipeVars, loop, race>>

\* GET /religions: one row for each entry (the rows as a set, their order
\* being the order of insertion, which the store of the model does not keep)
ListReligions ==
    /\ Commit([op |-> "list"],
              [store |-> generated_religions,
               response |->
                  [op |-> "list", status |-> 200,
                   religions |->
                      {[id |-> id,
                        name |-> generated_religions[id].religion.name,
                        description |-> generated_religions[id].religion.description,
                        deity_type |-> generated_religions[id].religion.deity_type,
                        created_at |-> generated_religions[id].created_at,
                        generation_time |-> generated_religions[id].generation_time] :
                       id \in DOMAIN generated_religions},
                   total_count |-> Cardinality(DOMAIN generated_religions)]],
              <<>>)
    /\ NoConversion
    /\ UNCHANGED <<edits, parseVars, pipeVars, loop, race>>

\* GET /religions/{religion_id}/summary
GetReligionSummary ==
    /\ \E religion_id \in DOMAIN generated_religions \cup {UnknownId} :
          IF religion_id \notin DOMAIN generated_religions
          THEN Commit([op |-> "summary", religion_id |-> religion_id],
                      NotFound("summary", generated_religions), <<>>)
          ELSE LET religion == generated_religions[religion_id].religion
               IN  Commit([op |-> "summary", religion_id |-> religion_id],
                          [store |-> generated_religions,
                           response |->
                              [op |-> "summary", status |-> 200, id |-> religion_id,
                               name |-> religion.name,
                               description |-> religion.description,
                               deity_type |-> religion.deity_type,
                               deity_count |-> Len(religion.deities),
                               ritual_count |-> Len(religion.rituals),
                               legend_count |-> Len(religion.legends),
                               moral_rule_count |-> Len(religion.moral_rules),
                               symbol_count |-> Len(religion.symbols),
                               core_beliefs |-> religion.core_beliefs,
                               holy_places |-> religion.holy_places]],
                          <<>>)
    /\ NoConversion
    /\ UNCHANGED <<edits, parseVars, pipeVars, loop, race>>

\* DELETE /religions/{religion_id}
DeleteReligion ==
    /\ \E religion_id \in DOMAIN generated_religions \cup {UnknownId} :
          IF religion_id \notin DOMAIN generated_religions
          THEN Commit([op |-> "delete", religion_id |-> religion_id],
                      NotFound("delete", generated_religions), <<>>)
          ELSE Commit([op |-> "delete", religion_id |-> religion_id],
                      [store |-> Pop(generated_religions, religion_id),
                       response |-> [op |-> "delete", status |-> 200,
                                     deleted_religion |->
                                        generated_religions[religion_id].religion.name]],
                      <<>>)
    /\ NoConversion
    /\ UNCHANGED <<edits, parseVars, pipeVars, loop, race>>

\* a second passes
Tick ==
    /\ events < MaxEvents
    /\ events' = events + 1
    /\ clock' = clock + 1
    /\ UNCHANGED <<generated_religions, last, calls, request, coerceVars, parseVars, pipeVars, loop, race>>

Init == CoerceIdle /\ ParseIdle /\ PipeIdle /\ LoopIdle /\ StoreIdle /\ RaceIdle

\* the requests that hand a religion or a component to the backend, the
\* deletion, and the clock
Next ==
    \/ GenerateReligion
    \/ GenerateComponent
    \/ ExpandReligion
    \/ DeleteReligion
    \/ Tick

Spec == Init /\ [][Next]_vars

\* every request of the service
NextService ==
    \/ Next
    \/ GetReligion
    \/ ListReligions
    \/ GenerateVariations
    \/ GetReligionSummary

SpecService == Init /\ [][NextService]_vars

(***************************************************************************)
(* The prompt of a religion request                                        *)
(***************************************************************************)
\* the parameters a caller may give: absent or given, and for the language
\* every key of the table and values outside it
\* GeminiClient.generate_religion up to the prompt it hands to the backend
BuildPrompt ==
    /\ request.op = "none"
    /\ \E theme \in {None, "nature"}, culture \in {None, "antik"},
          complexity \in {"simple", "medium", "complex"},
          deity_type \in {None, "monotheistic"},
          language \in SupportedLanguages \cup {"Klingon", "turkish", "Latin"} :
          /\ request' = [op |-> "prompt",
                         body |-> [theme |-> theme, culture |-> culture,
                                   complexity |-> complexity, deity_type |-> deity_type,
                                   language |-> language]]
          /\ calls' = <<create_religion_prompt(theme, culture, complexity,
                                               deity_type, language)>>
    /\ UNCHANGED <<generated_religions, clock, last, events, coerceVars, parseVars,
                   pipeVars, loop, race>>

SpecPrompt == Init /\ [][BuildPrompt]_vars

(***************************************************************************)
(* Two expand requests on one stored religion, taken line by line.  The    *)
(* event loop runs a handler without an await from its first line to its   *)
(* last, which is one of the schedules below; the others are those of a    *)
(* server that runs handlers side by side.  A Religion is an object: the   *)
(* store's entry and the handlers' local names hold its address.           *)
(***************************************************************************)
\* the stored religion the two requests name
RaceReligion == convert_to_models(TemplatePayload).val

\* what the second request asks for and gets from the backend: the
\* components of the first under another name
SecondRuns ==
    {[r EXCEPT !.comp =
        IF r.comp.st = "ok"
        THEN [r.comp EXCEPT !.val =
                [f \in DOMAIN r.comp.val |->
                    IF r.comp.val[f] = JStr("new") THEN JStr("other")
                    ELSE r.comp.val[f]]]
        ELSE r.comp] : r \in ComponentRuns}

\* Deity(**new_component), Ritual(**new_component), MythologicalLegend(**new_component)
BuildComponent(component_type, new_component) ==
    CASE component_type = "deity" -> Construct(JObj(new_component), DeityStr, DeityList)
      [] component_type = "ritual" -> Construct(JObj(new_component), RitualStr, RitualList)
      [] component_type = "legend" ->
            Construct(JObj(new_component), MythologicalLegendStr, MythologicalLegendList)

\* the list of the religion the component goes to
ListOf(component_type) ==
    CASE component_type = "deity" -> "deities"
      [] component_type = "ritual" -> "rituals"
      [] component_type = "legend" -> "legends"

\* the append is made to a copy of the religion, which is returned
AppendToCopy(heap, addr, field, new) ==
    [heap |-> Append(heap, AppendComponent(heap[addr], field, new)),
     addr |-> Len(heap) + 1]

\* religion.<list>.append(new); return religion: the object at addr changes
\* and is returned
AppendInPlace(heap, addr, field, new) ==
    [heap |-> [heap EXCEPT ![addr] = AppendComponent(heap[addr], field, new)],
     addr |-> addr]

\* the handler is between its read of the store and its response
InFlight(proc) == proc.pc \in {"call", "append", "write"}

\* the state after handler n moved to proc, the heap and the entry as given
RaceStep(n, proc, heap, entry) ==
    LET procs == [race.p EXCEPT ![n] = proc]
    IN  [race EXCEPT !.p = procs, !.heap = heap, !.entry = entry,
                     !.overlap = race.overlap \/ (InFlight(procs[1]) /\ InFlight(procs[2]))]

\* two requests arrive for the stored religion
RaceBegin ==
    /\ race.pc = "idle"
    /\ \E r1 \in ComponentRuns, r2 \in SecondRuns :
          race' = [pc |-> "run", heap |-> <<RaceReligion>>, entry |-> 1, overlap |-> FALSE,
                   p |-> <<[pc |-> "start", component_type |-> r1.component_type,
                            comp |-> r1.comp, religion |-> 0, status |-> 0],
                           [pc |-> "start", component_type |-> r2.component_type,
                            comp |-> r2.comp, religion |-> 0, status |-> 0]>>]
    /\ UNCHANGED <<coerceVars, parseVars, pipeVars, loop, storeVars>>

\* main.py 232-236: the id is in the store; religion_data = generated_religions[id]
RaceRead(n) ==
    /\ race.pc = "run"
    /\ race.p[n].pc = "start"
    /\ race' = RaceStep(n, [race.p[n] EXCEPT !.pc = "call", !.religion = race.entry],
                        race.heap, race.entry)
    /\ UNCHANGED <<coerceVars, parseVars, pipeVars, loop, storeVars>>

\* religion_generator.py 181-185: the component is asked of the backend
RaceCall(n) ==
    /\ race.pc = "run"
    /\ race.p[n].pc = "call"
    /\ race' = RaceStep(n, IF race.p[n].comp.st = "ok"
                           THEN [race.p[n] EXCEPT !.pc = "append"]
                           ELSE [race.p[n] EXCEPT !.pc = "failed", !.status = 500],
                        race.heap, race.entry)
    /\ UNCHANGED <<coerceVars, parseVars, pipeVars, loop, storeVars>>

\* religion_generator.py 188-199: the record is built and appended
RaceAppend(n) ==
    /\ race.pc = "run"
    /\ race.p[n].pc = "append"
    /\ LET proc == race.p[n]
           built == BuildComponent(proc.component_type, proc.comp.val)
           done == AppendInPlace(race.heap, proc.religion, ListOf(proc.component_type),
                                 built.val)
       IN  race' = IF built.ok
                   THEN RaceStep(n, [proc EXCEPT !.pc = "write", !.religion = done.addr],
                                 done.heap, race.entry)
                   ELSE RaceStep(n, [proc EXCEPT !.pc = "failed", !.status = 500],
                                 race.heap, race.entry)
    /\ UNCHANGED <<coerceVars, parseVars, pipeVars, loop, storeVars>>

\* main.py 243-250: generated_religions[id]["religion"] = expanded_religion
RaceWrite(n) ==
    /\ race.pc = "run"
    /\ race.p[n].pc = "write"
    /\ race' = RaceStep(n, [race.p[n] EXCEPT !.pc = "done", !.status = 200],
                        race.heap, race.p[n].religion)
    /\ UNCHANGED <<coerceVars, parseVars, pipeVars, loop, storeVars>>

NextRace ==
    \/ RaceBegin
    \/ \E n \in {1, 2} : RaceRead(n) \/ RaceCall(n) \/ RaceAppend(n) \/ RaceWrite(n)

SpecRace == Init /\ [][NextRace]_vars

HasChar(text, c) == \E i \in 1..Len(text) : text[i].c = c

\* C2: a text with no '{' or with no '}' makes _parse_response fail with the
\* "Valid JSON format not found" error, without json.loads having been called;
\* no mapping is returned.
C2_NoBracesExtractionError ==
    (parsed # NotRun /\ (~HasChar(response_text, "{") \/ ~HasChar(response_text, "}")))
    => /\ parsed.st = "error"
       /\ parsed.err[Len(parsed.err)] = "Valid JSON format not found"
       /\ ~parsed.loads

C2_Witness ==
    /\ parsed # NotRun
    /\ HasChar(response_text, "{")
    /\ ~HasChar(response_text, "}")
    /\ parsed.st = "error"
    /\ ~parsed.loads

\* C7: every failure of the pipeline reaches the caller under its own kind:
\* "Gemini API error" only when the backend call raised, the extraction error
\* for a text without brace markers, the JSON parse error for an unparsable
\* brace-delimited substring.
C7_ErrorKindsDistinct ==
    (result # NotRun /\ result.st = "error")
    => IF backend = "raised" THEN result.err[1] = "Gemini API error"
       ELSE /\ result.err[1] # "Gemini API error"
            /\ (~HasChar(response_text, "{") \/ ~HasChar(response_text, "}"))
                 => result.err[Len(result.err)] = "Valid JSON format not found"
            /\ (/\ HasChar(response_text, "{")
                /\ HasChar(response_text, "}")
                /\ ~JsonLoads(Slice(response_text, Find(response_text, "{"),
                                    RFind(response_text, "}") + 1)).ok)
                 => result.err[1] = "JSON parse error"

(***************************************************************************)
(* Properties of generate_religion_variations                              *)
(***************************************************************************)
\* C8: generate_religion_variations(base_theme, count) makes exactly count
\* generate_religion calls, the call of index i = 0..count-1 with theme
\* base_theme, the culture of index i mod 5 and the complexity of index i mod 3
\* of the fixed lists; for count <= 0 it makes none and returns an empty list.
C8_VariationCalls ==
    loop.pc = "done"
    => /\ Len(loop.log) = (IF loop.count > 0 THEN loop.count ELSE 0)
       /\ \A j \in 1..Len(loop.log) :
             /\ loop.log[j].theme = loop.base_theme
             /\ loop.log[j].culture =
                  <<"antik", "modern", "fantastik", "futuristik", "tribal">>[((j - 1) % 5) + 1]
             /\ loop.log[j].complexity =
                  <<"simple", "medium", "complex">>[((j - 1) % 3) + 1]
       /\ (loop.count <= 0 => loop.variations = <<>>)

C8_Witness ==
    /\ loop.pc = "done"
    /\ loop.count = 6
    /\ Len(loop.log) = 6
    /\ loop.log[6].culture = "antik"
    /\ loop.log[4].complexity = "simple"

\* the religions of the successful calls among log[from..], in call order
RECURSIVE Successes(_, _)
Successes(log, from) ==
    IF from > Len(log) THEN <<>>
    ELSE (IF log[from].ok THEN <<log[from].religion>> ELSE <<>>)
            \o Successes(log, from + 1)

\* C9: whichever calls fail, all count calls are made and the operation
\* returns exactly the religions of the successful calls, in index order.
C9_FailuresSkipped ==
    loop.pc = "done"
    => /\ Len(loop.log) = (IF loop.count > 0 THEN loop.count ELSE 0)
       /\ loop.variations = Successes(loop.log, 1)
       /\ Len(loop.variations) <= Len(loop.log)

C9_Witness ==
    /\ loop.pc = "done"
    /\ loop.count = 3
    /\ loop.log[1].ok /\ ~loop.log[2].ok /\ loop.log[3].ok
    /\ loop.log[1].religion # loop.log[3].religion
    /\ loop.variations = <<loop.log[1].religion, loop.log[3].religion>>

(***************************************************************************)
(* Properties of _convert_to_models                                        *)
(***************************************************************************)
\* key k is present in raw and holds a value of the type the schema of
\* models.py gives it
WellTypedKey(raw, k) ==
    /\ k \in DOMAIN raw
    /\ IF k \in ReligionStr THEN raw[k].t = "str"
       ELSE IF k \in ReligionList THEN IsStrList(raw[k])
       ELSE IF k = "deity_type"
       THEN raw[k].t = "str"
            /\ raw[k].v \in {"monotheistic", "polytheistic", "pantheistic", "animistic"}
       ELSE IF k = "reward_punishment"
       THEN raw[k].t = "obj" /\ FieldsValid(raw[k].v, StrFieldsOf(k), ListFieldsOf(k))
       ELSE /\ raw[k].t = "list"
            /\ \A i \in 1..Len(raw[k].v) :
                  /\ raw[k].v[i].t = "obj"
                  /\ FieldsValid(raw[k].v[i].v, StrFieldsOf(k), ListFieldsOf(k))

OthersWellTyped(raw, k) == \A o \in TopKeys \ {k} : WellTypedKey(raw, o)

Converted == conv # NotRun

\* C1: with every other field present and well-typed, a deity_type string
\* among the four enumerated values converts to a Religion holding that value,
\* and any other string fails with a "Data conversion error" and no Religion.
C1_DeityTypeCoercion ==
    (/\ Converted
     /\ "deity_type" \in DOMAIN raw_data
     /\ raw_data["deity_type"].t = "str"
     /\ OthersWellTyped(raw_data, "deity_type"))
    => IF raw_data["deity_type"].v
            \in {"monotheistic", "polytheistic", "pantheistic", "animistic"}
       THEN conv.st = "ok" /\ conv.val.deity_type = raw_data["deity_type"].v
       ELSE conv.st = "error" /\ conv.err[1] = "Data conversion error"

C1_Witness ==
    /\ Converted
    /\ "deity_type" \in DOMAIN raw_data
    /\ raw_data["deity_type"] = JStr("henotheistic")
    /\ OthersWellTyped(raw_data, "deity_type")
    /\ conv.st = "error"

\* C3: a payload without the reward_punishment key, every other field present
\* and well-typed, converts to a Religion whose reward_punishment holds empty
\* rewards, punishments and judgment_criteria and an empty afterlife_concept.
C3_RewardPunishmentDefaults ==
    (/\ Converted
     /\ "reward_punishment" \notin DOMAIN raw_data
     /\ OthersWellTyped(raw_data, "reward_punishment"))
    => /\ conv.st = "ok"
       /\ conv.val.reward_punishment =
            [rewards |-> <<>>, punishments |-> <<>>,
             judgment_criteria |-> <<>>, afterlife_concept |-> ""]

\* C4: an element of a top-level array that lacks one scalar field, in a
\* payload that is otherwise present and well-typed, is built with "" in that
\* field and the conversion succeeds.
C4_ElementScalarDefaults ==
    \A k \in ReligionModels :
        (Converted /\ k \in DOMAIN raw_data /\ raw_data[k].t = "list")
        => \A i \in 1..Len(raw_data[k].v) :
              raw_data[k].v[i].t = "obj"
              => \A f \in StrFieldsOf(k) \ DOMAIN raw_data[k].v[i].v :
                    LET filled == PutSub(raw_data, k, i,
                                         JObj(With(raw_data[k].v[i].v, f, JStr(""))))
                    IN  (\A o \in TopKeys : WellTypedKey(filled, o))
                        => /\ conv.st = "ok"
                           /\ conv.val[k][i][f] = ""

\* C5: with every other field present and well-typed, an absent list-valued
\* key converts to an empty list, an absent deity_type to polytheistic and an
\* absent name to "Unnamed Religion"; the conversion succeeds.
C5_AbsentKeyDefaults ==
    \A k \in {"deities", "sacred_texts", "rituals", "moral_rules", "legends", "symbols",
              "core_beliefs", "practices", "holy_places", "deity_type", "name"} :
        (Converted /\ k \notin DOMAIN raw_data /\ OthersWellTyped(raw_data, k))
        => /\ conv.st = "ok"
           /\ conv.val[k] = CASE k = "deity_type" -> "polytheistic"
                              [] k = "name" -> "Unnamed Religion"
                              [] OTHER -> <<>>

C5_Witness ==
    /\ Converted
    /\ "deities" \notin DOMAIN raw_data
    /\ OthersWellTyped(raw_data, "deities")
    /\ conv.st = "ok"
    /\ conv.val.deities = <<>>

(***************************************************************************)
(* Properties of the store                                                 *)
(***************************************************************************)
\* a sub-record of raw, its deity_type or one of the Religion's own fields
\* cannot be constructed
ConstructionFails(raw) ==
    \/ \E k \in ReligionModels :
          /\ k \in DOMAIN raw
          /\ raw[k].t = "list"
          /\ \E i \in 1..Len(raw[k].v) :
                ~(/\ raw[k].v[i].t = "obj"
                  /\ FieldsValid(raw[k].v[i].v, StrFieldsOf(k), ListFieldsOf(k)))
    \/ LET rp == IF "reward_punishment" \in DOMAIN raw THEN raw["reward_punishment"]
                 ELSE JObj(EmptyMap)
       IN  ~(rp.t = "obj" /\ FieldsValid(rp.v, RewardPunishmentStr, RewardPunishmentList))
    \/ \E k \in ReligionStr \cup ReligionList \cup {"deity_type"} :
          k \in DOMAIN raw /\ ~WellTypedKey(raw, k)

\* the step is a request to POST /religions/generate that reached
\* _convert_to_models
GenerateConverts ==
    events' = events + 1 /\ clock' = clock /\ last'.op = "generate" /\ conv' # NotRun

\* C6: when a generate request hands _convert_to_models a payload of which a
\* sub-record or the Religion cannot be constructed, the conversion raises one
\* "Data conversion error" naming the cause and returns no Religion, the
\* request is answered with that error, and the store is the same after the
\* request as before it.
C6_AllOrNothing ==
    [][(GenerateConverts /\ ConstructionFails(raw_data'))
       => /\ conv'.st = "error"
          /\ Len(conv'.err) = 2
          /\ conv'.err[1] = "Data conversion error"
          /\ "val" \notin DOMAIN conv'
          /\ last'.status = 500
          /\ last'.detail = <<"Religion generation error">> \o conv'.err
          /\ generated_religions' = generated_religions]_vars

C6_Witness ==
    /\ last.op = "generate"
    /\ last.status = 500
    /\ conv # NotRun
    /\ ConstructionFails(raw_data)
    /\ "symbols" \in DOMAIN raw_data
    /\ Len(raw_data["symbols"].v) = 2
    /\ conv.st = "error"
    /\ Cardinality(DOMAIN generated_religions) = 2

\* the list of a Religion that a component of the kind is appended to
ListOfKind(kind) ==
    CASE kind = "deity" -> "deities"
      [] kind = "ritual" -> "rituals"
      [] kind = "legend" -> "legends"

\* the step is a request to expand a stored religion by a deity, a ritual or
\* a legend that was answered with success
ExpandSucceeds ==
    /\ events' = events + 1
    /\ clock' = clock
    /\ last'.op = "expand"
    /\ last'.status = 200
    /\ last'.added_component \in {"deity", "ritual", "legend"}

\* C10: a successful expansion by a deity, a ritual or a legend leaves the
\* religion with exactly one more record in the matching list, placed after
\* the records it already held, and with every other list and every scalar
\* field as before.
C10_ExpandAppendsOne ==
    [][ExpandSucceeds
       => LET id == last'.religion_id
              f == ListOfKind(last'.added_component)
              old == generated_religions[id].religion
              new == generated_religions'[id].religion
          IN  /\ Len(new[f]) = Len(old[f]) + 1
              /\ SubSeq(new[f], 1, Len(old[f])) = old[f]
              /\ DOMAIN new = DOMAIN old
              /\ \A g \in DOMAIN old \ {f} : new[g] = old[g]
              /\ last'.religion = new]_vars

C10_Witness ==
    /\ last.op = "expand"
    /\ last.status = 200
    /\ last.added_component = "ritual"
    /\ Len(generated_religions[last.religion_id].religion.rituals) = 3
    /\ generated_religions[last.religion_id].religion.rituals[1].name = "name"
    /\ generated_religions[last.religion_id].religion.rituals[3].name = "new"

\* the step is a request to expand a stored religion by a kind other than
\* deity, ritual and legend
ExpandsByOtherKind ==
    /\ events' = events + 1
    /\ clock' = clock
    /\ request'.op = "expand"
    /\ request'.religion_id \in DOMAIN generated_religions
    /\ request'.component_type \notin {"deity", "ritual", "legend"}

\* C11 as stated: expanding a religion by a kind other than deity, ritual and
\* legend completes without an error reported to the caller and leaves the
\* religion unchanged.
C11_SilentNoOp ==
    [][ExpandsByOtherKind
       => /\ last'.status = 200
          /\ generated_religions' = generated_religions]_vars

\* C11 amended: expanding a religion by a kind other than deity, ritual and
\* legend fails with the "Unsupported component type" error naming the kind,
\* reported to the caller, without a backend call, and leaves the religion
\* and the store unchanged.
C11_UnsupportedKindRejected ==
    [][ExpandsByOtherKind
       => /\ last'.op = "expand"
          /\ last'.status = 500
          /\ last'.detail = <<"Religion expansion error", "Unsupported component type",
                              request'.component_type>>
          /\ calls' = <<>>
          /\ generated_religions' = generated_religions]_vars

C11_Witness ==
    /\ request.op = "expand"
    /\ request.component_type = "weather"
    /\ request.religion_id \in DOMAIN generated_religions
    /\ Len(generated_religions[request.religion_id].religion.legends) = 2
    /\ last.status = 500

\* the step is a request to POST /components/generate
GeneratesComponent ==
    events' = events + 1 /\ clock' = clock /\ request'.op = "component"

\* C12: component generation for a kind other than deity, ritual and legend
\* fails with the "Unsupported component type" error, calls the backend not
\* at all and leaves the store and every stored religion as they were; for a
\* kind among the three the backend is called exactly once.
C12_UnsupportedKindNoCall ==
    [][GeneratesComponent
       => IF request'.component_type \notin {"deity", "ritual", "legend"}
          THEN /\ last'.status = 500
               /\ last'.detail = <<"Component generation error",
                                   "Unsupported component type", request'.component_type>>
               /\ calls' = <<>>
               /\ generated_religions' = generated_religions
          ELSE /\ Len(calls') = 1
               /\ calls'[1].component_type = request'.component_type]_vars

C12_Witness ==
    /\ request.op = "component"
    /\ request.component_type = "weather"
    /\ request.religion_id \in DOMAIN generated_religions
    /\ last.status = 500
    /\ calls = <<>>

(***************************************************************************)
(* Properties of the prompt                                                *)
(***************************************************************************)
\* C13: the directive of the prompt is the table's entry for a language among
\* the 11 keys and the Turkish entry for any other language; a prompt is built
\* for every language, and it names the language as it was given.
C13_LanguageDirective ==
    request.op = "prompt"
    => /\ Len(calls) = 1
       /\ calls[1].language = request.body.language
       /\ IF request.body.language
               \in {"Turkish", "English", "Spanish", "French", "German", "Italian",
                    "Portuguese", "Russian", "Arabic", "Japanese", "Chinese"}
          THEN calls[1].language_instructions = language_map[request.body.language]
          ELSE calls[1].language_instructions = "TUM ICERIGI TURKCE OLARAK URET."

C13_Witness ==
    /\ request.op = "prompt"
    /\ request.body.language = "Klingon"
    /\ calls[1].language = "Klingon"
    /\ calls[1].language_instructions = language_map["Turkish"]

(***************************************************************************)
(* Properties of the records' lifecycle                                    *)
(***************************************************************************)
\* new is old with one record more at the end of exactly one of the lists
\* deities, rituals and legends, and nothing else changed
OneAppended(old, new) ==
    /\ DOMAIN new = DOMAIN old
    /\ \E f \in {"deities", "rituals", "legends"} :
          /\ Len(new[f]) = Len(old[f]) + 1
          /\ SubSeq(new[f], 1, Len(old[f])) = old[f]
          /\ \A g \in DOMAIN old \ {f} : new[g] = old[g]

\* C14: in every step of the service, an entry of the store that changes does
\* so through a successful expand request on its identifier, which appends
\* one deity, ritual or legend to its religion, and an identifier that leaves
\* the store does so through a delete request naming it.
C14_RecordLifecycle ==
    [][\A id \in DOMAIN generated_religions :
          IF id \in DOMAIN generated_religions'
          THEN generated_religions'[id] # generated_religions[id]
               => /\ request'.op = "expand"
                  /\ request'.religion_id = id
                  /\ last'.status = 200
                  /\ generated_religions'[id].created_at = generated_religions[id].created_at
                  /\ generated_religions'[id].generation_time
                        = generated_religions[id].generation_time
                  /\ OneAppended(generated_religions[id].religion,
                                 generated_religions'[id].religion)
          ELSE request'.op = "delete" /\ request'.religion_id = id]_vars

\* the step is a request to POST /religions/generate answered with success
GenerateSucceeds ==
    /\ events' = events + 1
    /\ clock' = clock
    /\ request'.op = "generate"
    /\ last'.status = 200

\* C16: a successful generate request stores its religion under an
\* identifier that was not a key of the store, so that the store grows by one
\* entry and every entry it held is still there as it was.
C16_FreshIdentifiers ==
    [][GenerateSucceeds
       => /\ last'.id \notin DOMAIN generated_religions
          /\ Cardinality(DOMAIN generated_religions')
                = Cardinality(DOMAIN generated_religions) + 1
          /\ \A id \in DOMAIN generated_religions :
                /\ id \in DOMAIN generated_religions'
                /\ generated_religions'[id] = generated_religions[id]]_vars

(***************************************************************************)
(* Properties of overlapping expand requests                               *)
(***************************************************************************)
\* the religion after expand_religion(religion, ...) of the handler's request
\* has returned or raised
AfterExpand(religion, proc) ==
    LET x == expand_religion(religion, proc.component_type, proc.comp)
    IN  IF x.st = "ok" THEN x.val ELSE religion

\* the stored religion after the request of handler a, then that of handler b
SerialResult(a, b) == AfterExpand(AfterExpand(RaceReligion, race.p[a]), race.p[b])

\* both requests have been answered
BothAnswered ==
    race.pc = "run" /\ \A n \in {1, 2} : race.p[n].pc \in {"done", "failed"}

\* the religion the store's entry holds
StoredReligion == race.heap[race.entry]

\* C15 as stated: two expand requests on one identifier whose steps overlap
\* and that both succeed leave a stored record that differs from the result
\* of running them one after the other in either order.
C15_OverlapLosesUpdate ==
    (/\ BothAnswered
     /\ race.overlap
     /\ \A n \in {1, 2} : race.p[n].pc = "done")
    => StoredReligion \notin {SerialResult(1, 2), SerialResult(2, 1)}

\* C15 amended: however the steps of two expand requests on one identifier
\* interleave, the stored record ends as the result of running the two
\* requests one after the other in one of the two orders; no appended
\* component is lost.
C15_ExpandsSerializable ==
    BothAnswered => StoredReligion \in {SerialResult(1, 2), SerialResult(2, 1)}

C15_Witness ==
    /\ BothAnswered
    /\ race.overlap
    /\ \A n \in {1, 2} : race.p[n].pc = "done" /\ race.p[n].component_type = "deity"
    /\ Len(StoredReligion.deities) = 3
    /\ StoredReligion.deities[2].name = "other"
    /\ StoredReligion.deities[3].name = "new"

====
